---- MODULE Spec2Model ----
(***************************************************************************)
(* Model of src/lib/data/api.ts: the request dispatcher apiCall, the       *)
(* session it reads and clears, and the resource operations built on it.  *)
(*                                                                         *)
(* A URL is a sequence of pieces.  Every '?' and '&' of a URL is a piece   *)
(* of its own, so separators can be counted and located; the text between *)
(* two separators is kept in larger pieces.                                *)
(* An optional value (T | null) is a set: {} is null, {v} is the value v. *)
(***************************************************************************)
EXTENDS Integers, Sequences, FiniteSets, TLC

VARIABLES identity, durable, call, pager, since401

vars == <<identity, durable, call, pager, since401>>

\* ------------------------------------------------------------------ bounds
NumCalls == 2
MaxItems == 5
MaxContext == 10
MaxPages == 2

Calls == 1..NumCalls

\* ------------------------------------------------------------ value domains
Null == {}

Some(v) == {v}

Get(opt) == CHOOSE v \in opt : TRUE

\* Access tokens an identity may hold; "" is the empty token.
Tokens == {"", "tokA"}

Identities == [accessToken : Tokens]

\* Response statuses the server may answer with; concurrent direct calls are
\* answered from the smaller set.
Statuses == {200, 204, 299, 300, 401, 500}

DirectStatuses == {200, 204, 401, 500}

\* ------------------------------------------------------------- session store
\* persistent.flush(): commits the current session state to durable storage.
Flush(id) == id

\* ------------------------------------------------------------------ apiCall
BASE_URL == <<"BASE_URL">>

\* A variant of BuildHeaders that interpolates the token without testing it.
BuildHeadersAlways(id) ==
    [h \in {"Content-Type", "Authorization"} |->
        IF h = "Content-Type" THEN "application/json"
        ELSE "Bearer " \o (IF id # Null THEN Get(id).accessToken ELSE "")]

\* Lines 46-52: Content-Type always, Authorization only for a truthy token.
BuildHeaders(id) ==
    IF id # Null /\ Get(id).accessToken # ""
    THEN [h \in {"Content-Type", "Authorization"} |->
            IF h = "Content-Type" THEN "application/json"
            ELSE "Bearer " \o Get(id).accessToken]
    ELSE [h \in {"Content-Type"} |-> "application/json"]

\* Lines 54-60: the request handed to fetch.
BuildRequest(id, url, method, hasBody) ==
    [url |-> BASE_URL \o url, method |-> method,
     headers |-> BuildHeaders(id), hasBody |-> hasBody]

\* A variant of IsOk that takes redirects for successes.
IsOkBelow400(status) == status >= 200 /\ status < 400

\* response.ok
IsOk(status) == status >= 200 /\ status <= 299

\* ------------------------------------------------------- the server's answers
Items == {"a", "b"}

\* The item sequences a response may hold: every length up to MaxItems, the
\* items alternating from either first item.
ItemSeq(first, n) ==
    [i \in 1..n |-> IF i % 2 = 1 THEN first ELSE CHOOSE x \in Items : x # first]

ItemSeqs == {ItemSeq(first, n) : first \in Items, n \in 0..MaxItems}

\* The values of left and context a server may put in a paginated envelope.
ServerLefts == {0, 3}

ServerContexts == {0, 7}

\* Decoded JSON documents: the multi-result and the paginated envelope.
MultiDocs == [shape : {"multi"}, result : ItemSeqs]

PaginatedDocs ==
    [shape : {"paginated"}, result : ItemSeqs, left : ServerLefts,
     context : ServerContexts]

\* A bare JavaScript array, as opposed to an envelope object.
ArrayValue(s) == [shape |-> "array", items |-> s]

RawBody(t) == [kind |-> "raw", text |-> t]

JsonBody(d) == [kind |-> "json", doc |-> d]

\* ------------------------------------------------------------------ outcomes
NoOutcome == [kind |-> "none"]

Resolved(v) == [kind |-> "resolved", value |-> v]

\* fetch or a body read rejected: no API error is built.
TransportError == [kind |-> "rejected", type |-> "TransportError"]

\* response.json() rejected on a body that is not JSON.
DecodeError == [kind |-> "rejected", type |-> "DecodeError"]

\* Reading .result of null.
TypeError == [kind |-> "rejected", type |-> "TypeError"]

\* Line 70: new Error(`API error: ${response.status} - ${error}`)
ApiError(status, text) ==
    [kind |-> "rejected", type |-> "Error",
     message |-> <<"API error: ", status, " - ", text>>]

\* response.text(): the body as received.
ResponseText(body) == body

\* response.json(): the decoded document, or a rejection.
ResponseJson(body) ==
    IF body.kind = "json" THEN Resolved(Some(body.doc)) ELSE DecodeError

\* --------------------------------------------------------------- call state
IdleCall ==
    [pc |-> "idle", op |-> "none", ctx |-> 0, request |-> Null, sent |-> 0,
     after401 |-> FALSE, response |-> Null, clears |-> 0, flushes |-> 0,
     api |-> NoOutcome, result |-> NoOutcome]

\* A pagination sequence: the contexts passed so far, and the number of items
\* each returned call of the sequence delivered.
IdlePager == [active |-> FALSE, log |-> <<>>, got |-> <<>>]

Init ==
    /\ identity \in {Null} \cup {Some(i) : i \in Identities}
    /\ durable = identity
    /\ call = [c \in Calls |-> IdleCall]
    /\ pager = IdlePager
    /\ since401 = FALSE

\* Lines 41-60: apiCall runs up to its first await; one request is sent.
ApiCallBegin(c, op, ctx, url, method, hasBody) ==
    /\ call' = [call EXCEPT ![c] =
                   [IdleCall EXCEPT !.pc = "fetch", !.op = op, !.ctx = ctx,
                        !.request = Some(BuildRequest(identity, url, method, hasBody)),
                        !.sent = 1, !.after401 = since401]]
    /\ UNCHANGED <<identity, durable, since401>>

\* Line 56: fetch rejects (network failure); the call fails, nothing else runs.
FetchRejects(c) ==
    /\ call[c].pc = "fetch"
    /\ call' = [call EXCEPT ![c].pc = "settled", ![c].api = TransportError]
    /\ UNCHANGED <<identity, durable, pager, since401>>

\* Lines 56-75: fetch resolves with a response; runs to the next await or return.
AfterFetch(cl, resp) ==
    IF ~IsOk(resp.status)
    THEN [cl EXCEPT !.pc = "text", !.response = Some(resp)]
    ELSE IF resp.status = 204
         THEN [cl EXCEPT !.pc = "settled", !.response = Some(resp),
                         !.api = Resolved(Null)]
         ELSE [cl EXCEPT !.pc = "json", !.response = Some(resp)]

FetchResolves(c, resp) ==
    /\ call[c].pc = "fetch"
    /\ call' = [call EXCEPT ![c] = AfterFetch(call[c], resp)]
    /\ UNCHANGED <<identity, durable, pager, since401>>

\* Line 63: reading the error body rejects; lines 65-70 never run.
TextRejects(c) ==
    /\ call[c].pc = "text"
    /\ call' = [call EXCEPT ![c].pc = "settled", ![c].api = TransportError]
    /\ UNCHANGED <<identity, durable, pager, since401>>

\* A variant of IsUnauthorized that takes every client or server error.
IsUnauthorizedOrAnyError(status) == status >= 400

\* Line 65: the test that guards the session clearing.
IsUnauthorized(status) == status = 401

\* A variant of ClearedIdentity that leaves the identity in place.
ClearedIdentityKept == identity

\* Line 66: persistent.identity = null
ClearedIdentity == Null

\* Lines 63-70: the error body is read; a 401 clears and flushes; the call throws.
TextResolves(c) ==
    /\ call[c].pc = "text"
    /\ LET resp == Get(call[c].response)
           hit == IsUnauthorized(resp.status)
       IN  /\ identity' = IF hit THEN ClearedIdentity ELSE identity
           /\ durable' = IF hit THEN Flush(identity') ELSE durable
           /\ since401' = (hit \/ since401)
           /\ call' = [call EXCEPT ![c].pc = "settled",
                          ![c].clears = IF hit THEN @ + 1 ELSE @,
                          ![c].flushes = IF hit THEN @ + 1 ELSE @,
                          ![c].api = ApiError(resp.status, ResponseText(resp.body))]
    /\ UNCHANGED pager

\* Line 75: reading the success body rejects before it can be decoded.
JsonRejects(c) ==
    /\ call[c].pc = "json"
    /\ call' = [call EXCEPT ![c].pc = "settled", ![c].api = TransportError]
    /\ UNCHANGED <<identity, durable, pager, since401>>

\* Line 75: the promise of response.json() settles the call.
JsonSettles(c) ==
    /\ call[c].pc = "json"
    /\ call' = [call EXCEPT ![c].pc = "settled",
                   ![c].api = ResponseJson(Get(call[c].response).body)]
    /\ UNCHANGED <<identity, durable, pager, since401>>

\* ------------------------------------------------------- resource operations
\* A string is a sequence of pieces; these are the values a caller may pass
\* for a free-text parameter (dates, pattern).
Strings == {<<>>, <<"2024-01-01">>, <<"a", "&", "b">>, <<"why", "?">>}

Periods == {<<"current-month">>}

Operations == {<<"cost">>}

Ids == {7}

\* `${n}` for a number.
Num(n) == <<ToString(n)>>

Opt(S) == {Null} \cup {Some(v) : v \in S}

\* Line 98: the default of limit.
DefaultLimit == 15

\* Lines 113-119: a filter is appended when it is != null.
Particle(key, opt) == IF opt # Null THEN <<"&", key>> \o Get(opt) ELSE <<>>

NumOpt(opt) == IF opt # Null THEN Some(Num(Get(opt))) ELSE Null

\* Lines 109-121: the URL of transactionsList.
TransactionsUrl(a) ==
    <<"/transactions", "?", "context=">> \o Num(a.context)
        \o <<"&", "limit=">> \o Num(a.limit)
        \o Particle("currencyId=", NumOpt(a.currencyId))
        \o Particle("costCategoryId=", NumOpt(a.costCategoryId))
        \o Particle("period=", a.period)
        \o Particle("startDate=", a.startDate)
        \o Particle("endDate=", a.endDate)
        \o Particle("operation=", a.operation)

\* A JavaScript truthiness test of an optional string.
Truthy(opt) == opt # Null /\ Get(opt) # <<>>

\* Lines 270-280: the URL of fetchBasicAnalyticsFiltered.
AnalyticsFilteredUrl(f) ==
    LET range == Truthy(f.startDate) /\ Truthy(f.endDate)
        url1 == IF range
                THEN <<"/analytics/basic", "?", "startDate=">> \o Get(f.startDate)
                         \o <<"&", "endDate=">> \o Get(f.endDate)
                ELSE <<"/analytics/basic">>
    IN  IF Truthy(f.pattern)
        THEN IF range THEN url1 \o <<"&", "pattern=">> \o Get(f.pattern)
                      ELSE url1 \o <<"?", "pattern=">> \o Get(f.pattern)
        ELSE url1

\* Line 261: the URL of fetchBasicAnalyticsByPeriod.
AnalyticsByPeriodUrl(period) == <<"/analytics/basic", "?", "period=">> \o period

\* A variant of PassThroughOps in which notificationsList returns the envelope.
PassThroughOpsAndNotifications ==
    {"costCategoriesList", "costShortcutsList", "equityList", "notificationsList"}

\* The list operations that return what apiCall resolved with (lines 136-140,
\* 174-178, 253-255) and those that return response.result (lines 245-248,
\* 257-286).
PassThroughOps == {"costCategoriesList", "costShortcutsList", "equityList"}

UnwrapOps ==
    {"notificationsList", "fetchBasicAnalyticsByPeriod", "fetchBasicAnalyticsFiltered"}

ListUrl(op) ==
    CASE op = "costCategoriesList" -> <<"/costs/categories">>
      [] op = "costShortcutsList" -> <<"/costs/shortcuts">>
      [] op = "equityList" -> <<"/analytics/equity">>
      [] op = "notificationsList" -> <<"/notifications">>

\* Variants of NewContext: the server's context passed through, and the page
\* length without the incoming context.
NewContextFromServer(context, results) == results.context

NewContextNoAccumulation(context, results) == Len(results.result)

\* Lines 126-132: the page transactionsList returns.
NewContext(context, results) == context + Len(results.result)

TransactionsPage(context, results) ==
    [shape |-> "paginated", context |-> NewContext(context, results),
     left |-> results.left, result |-> results.result]

\* What an operation does with the outcome of its apiCall.
OpResult(op, ctx, api) ==
    IF api.kind = "rejected" THEN api
    ELSE IF op \in PassThroughOps THEN api
    ELSE IF api.value = Null THEN TypeError
    ELSE IF op \in UnwrapOps THEN Resolved(Some(ArrayValue(Get(api.value).result)))
    ELSE Resolved(Some(TransactionsPage(ctx, Get(api.value))))

\* ------------------------------------------------------------------ callers
\* The bodies a server may answer an operation with.
BodiesFor(op) ==
    {RawBody("server exploded")} \cup
    IF op = "transactionsList" THEN {JsonBody(d) : d \in PaginatedDocs}
    ELSE IF op = "apiCall" THEN {JsonBody([shape |-> "multi", result |-> <<"a">>])}
    ELSE {JsonBody(d) : d \in MultiDocs}

Responses(op) ==
    [status : IF op = "apiCall" THEN DirectStatuses ELSE Statuses,
     body : BodiesFor(op)]

\* The request of a direct apiCall.
DirectRequests ==
    {[url |-> <<"/costs">>, method |-> "POST", hasBody |-> TRUE]}

\* A caller invokes apiCall itself (as lines 142-161 do).
DirectCall(c, r) ==
    /\ call[c].pc = "idle"
    /\ ApiCallBegin(c, "apiCall", 0, r.url, r.method, r.hasBody)
    /\ UNCHANGED pager

\* Lines 136-140, 174-178, 245-255: a list operation without parameters.
ListCall(c, op) ==
    /\ call[c].pc = "idle"
    /\ ApiCallBegin(c, op, 0, ListUrl(op), "GET", FALSE)
    /\ UNCHANGED pager

\* Lines 257-263.
ByPeriodCall(c, period) ==
    /\ call[c].pc = "idle"
    /\ ApiCallBegin(c, "fetchBasicAnalyticsByPeriod", 0,
                    AnalyticsByPeriodUrl(period), "GET", FALSE)
    /\ UNCHANGED pager

\* Lines 267-284.
FilteredCall(c, f) ==
    /\ call[c].pc = "idle"
    /\ ApiCallBegin(c, "fetchBasicAnalyticsFiltered", 0,
                    AnalyticsFilteredUrl(f), "GET", FALSE)
    /\ UNCHANGED pager

\* Lines 90-124: a transactionsList call outside a pagination sequence.
TransactionsCall(c, a) ==
    /\ call[c].pc = "idle"
    /\ ApiCallBegin(c, "transactionsList", a.context, TransactionsUrl(a), "GET", FALSE)
    /\ pager' = IdlePager

\* The continuation of an operation once its apiCall has settled.
OpReturns(c) ==
    /\ call[c].pc = "settled"
    /\ call[c].op # "apiCall"
    /\ LET res == OpResult(call[c].op, call[c].ctx, call[c].api)
       IN  /\ call' = [call EXCEPT ![c].pc = "returned", ![c].result = res]
           /\ pager' = IF pager.active /\ res.kind = "resolved"
                       THEN [pager EXCEPT !.got = Append(@, Len(Get(res.value).result))]
                       ELSE pager
    /\ UNCHANGED <<identity, durable, since401>>

\* The parameters of transactionsList.
NoFilters(context) ==
    [currencyId |-> Null, costCategoryId |-> Null, period |-> Null,
     startDate |-> Null, endDate |-> Null, operation |-> Null,
     context |-> context, limit |-> DefaultLimit]

TransactionsArgs ==
    [currencyId : Opt(Ids), costCategoryId : Opt(Ids), period : Opt(Periods),
     startDate : Opt(Strings), endDate : Opt(Strings), operation : Opt(Operations),
     context : 0..MaxContext, limit : {DefaultLimit}]

FilteredArgs ==
    [startDate : Opt(Strings), endDate : Opt(Strings), pattern : Opt(Strings)]

\* A pagination sequence: the first call passes context 0.
PagerFirst(c) ==
    /\ call[c].pc = "idle"
    /\ ApiCallBegin(c, "transactionsList", 0, TransactionsUrl(NoFilters(0)), "GET", FALSE)
    /\ pager' = [active |-> TRUE, log |-> <<0>>, got |-> <<>>]

\* A pagination sequence: a later call passes the context the previous returned.
PagerNext(c) ==
    /\ pager.active
    /\ Len(pager.log) < MaxPages
    /\ call[c].pc = "returned"
    /\ call[c].result.kind = "resolved"
    /\ LET context == Get(call[c].result.value).context
       IN  /\ context <= MaxContext
           /\ ApiCallBegin(c, "transactionsList", context,
                           TransactionsUrl(NoFilters(context)), "GET", FALSE)
           /\ pager' = [pager EXCEPT !.log = Append(@, context)]

\* Re-authentication: the application stores a new identity in the session.
Reauth(i) ==
    /\ identity' = Some(i)
    /\ durable' = Flush(identity')
    /\ since401' = FALSE
    /\ UNCHANGED <<call, pager>>

\* ----------------------------------------------------------- specifications
Dispatch(c) ==
    \/ FetchRejects(c)
    \/ \E resp \in Responses(call[c].op) : FetchResolves(c, resp)
    \/ TextRejects(c)
    \/ TextResolves(c)
    \/ JsonRejects(c)
    \/ JsonSettles(c)

\* Concurrent direct apiCall invocations; the 401 clearing is the only write
\* to the session.
Next ==
    \E c \in Calls :
        \/ \E r \in DirectRequests : DirectCall(c, r)
        \/ Dispatch(c)

Spec == Init /\ [][Next]_vars

\* The same, with re-authentication.
NextAuth ==
    \/ Next
    \/ \E i \in Identities : Reauth(i)

SpecAuth == Init /\ [][NextAuth]_vars

\* One caller using the resource operations, one call at a time.
Caller == CHOOSE c \in Calls : \A d \in Calls : c <= d

FilterSamples ==
    {a \in TransactionsArgs :
        /\ a.currencyId = Null <=> a.startDate = Null
        /\ a.costCategoryId = a.currencyId
        /\ (a.period = Null) = (a.currencyId = Null)
        /\ a.operation = a.period
        /\ a.startDate \in {Null, Some(<<"2024-01-01">>)}
        /\ a.endDate = a.startDate}

FilteredSamples ==
    {f \in FilteredArgs :
        /\ f.startDate \in {Null, Some(<<"2024-01-01">>)}
        /\ f.endDate = f.startDate
        /\ f.pattern \in {Null, Some(<<"a", "&", "b">>)}}

NextOps ==
    \/ \E op \in PassThroughOps \cup {"notificationsList"} : ListCall(Caller, op)
    \/ \E p \in Periods : ByPeriodCall(Caller, p)
    \/ \E f \in FilteredSamples : FilteredCall(Caller, f)
    \/ \E a \in FilterSamples : TransactionsCall(Caller, a)
    \/ PagerFirst(Caller)
    \/ PagerNext(Caller)
    \/ Dispatch(Caller)
    \/ OpReturns(Caller)

SpecOps == Init /\ [][NextOps]_vars

\* URL construction alone, over every combination of parameters.
NextUrl ==
    \/ \E f \in FilteredArgs : FilteredCall(Caller, f)
    \/ \E a \in TransactionsArgs : TransactionsCall(Caller, a)

SpecUrl == Init /\ [][NextUrl]_vars

\* ------------------------------------------------------------------- claims
Settled(c) == call[c].pc \in {"settled", "returned"}

Status(c) == Get(call[c].response).status

Body(c) == Get(call[c].response).body

Headers(c) == Get(call[c].request).headers

Got401(c) == call[c].response # Null /\ Status(c) = 401

\* C1: every apiCall whose response has status 401 clears the session identity
\* and flushes exactly once before it fails, so the identity is empty once the
\* call has returned.
C1_Every401ClearsOnce ==
    \A c \in Calls :
        (Settled(c) /\ Got401(c)) =>
            /\ call[c].clears = 1
            /\ call[c].flushes = 1
            /\ call[c].api.kind = "rejected"
            /\ identity = Null
            /\ durable = Null

\* C2: a request carries Authorization 'Bearer <token>' exactly when the
\* session holds an identity with a non-empty access token as the call starts;
\* otherwise it carries no Authorization header at all and is still sent.
C2_AuthorizationHeader ==
    [][\A c \in Calls :
          (call[c].pc = "idle" /\ call'[c].pc = "fetch") =>
              LET h == Get(call'[c].request).headers
              IN  /\ call'[c].sent = 1
                  /\ h["Content-Type"] = "application/json"
                  /\ IF identity # Null /\ Get(identity).accessToken # ""
                     THEN /\ "Authorization" \in DOMAIN h
                          /\ h["Authorization"] = "Bearer " \o Get(identity).accessToken
                     ELSE "Authorization" \notin DOMAIN h]_vars

C2_Witness ==
    \E c, d \in Calls :
        /\ call[c].pc = "settled" /\ Got401(c) /\ call[c].clears = 1
        /\ "Authorization" \in DOMAIN Headers(c)
        /\ Headers(c)["Authorization"] = "Bearer tokA"
        /\ call[d].pc = "fetch" /\ call[d].after401 /\ call[d].sent = 1
        /\ "Authorization" \notin DOMAIN Headers(d)

\* A step that writes the session or counts a clearing or a flush.
SessionStep ==
    \/ identity' # identity
    \/ durable' # durable
    \/ \E c \in Calls : call'[c].flushes # call[c].flushes \/ call'[c].clears # call[c].clears

\* The step in which call c throws the API error of its 401 response.
Handles401(c) ==
    /\ call[c].pc = "text"
    /\ Status(c) = 401
    /\ call'[c].pc = "settled"
    /\ call'[c].api = ApiError(401, Body(c))

\* C3: apiCall changes the session (identity, flush) only while it handles a
\* 401 response: every step of a call on any other outcome (2xx, 204, another
\* non-2xx status, a network failure, a decode failure) leaves the identity as
\* it was and calls no flush.
C3_SessionOnlyOn401 ==
    [][/\ SessionStep => \E c \in Calls : Handles401(c)
       /\ \A c \in Calls :
             (/\ call'[c].pc = "settled"
              /\ \A r \in call'[c].response : r.status # 401) =>
                 /\ call'[c].flushes = 0
                 /\ call'[c].clears = 0]_vars

C3_Witness ==
    \E c, d \in Calls :
        /\ call[c].pc = "settled" /\ call[c].response # Null /\ Status(c) = 500
        /\ call[c].api = ApiError(500, RawBody("server exploded"))
        /\ call[d].pc = "settled" /\ call[d].api = DecodeError
        /\ identity # Null /\ durable = identity
        /\ call[c].flushes = 0 /\ call[d].flushes = 0

\* C6: for any set of apiCall invocations in flight together, the 401 clearing
\* being the only write to the session, and for every interleaving of their
\* responses: each 401 response clears the identity and flushes, and once all
\* calls have returned the identity is empty if at least one response was 401.
C6_Concurrent401s ==
    (\A c \in Calls : Settled(c)) =>
        /\ \A c \in Calls : Got401(c) => (call[c].clears = 1 /\ call[c].flushes = 1)
        /\ (\E c \in Calls : Got401(c)) => (identity = Null /\ durable = Null)

\* C7: once an apiCall has handled a 401 response, every apiCall started
\* afterwards and before a re-authentication sets the identity again sends its
\* request without an Authorization header.
C7_UnauthenticatedAfter401 ==
    \A c \in Calls :
        (call[c].pc # "idle" /\ call[c].after401) =>
            /\ call[c].sent = 1
            /\ "Authorization" \notin DOMAIN Headers(c)

C7_Witness ==
    \E c, d \in Calls :
        /\ call[c].pc = "settled" /\ Got401(c) /\ call[c].clears = 1
        /\ "Authorization" \in DOMAIN Headers(c)
        /\ call[d].pc = "fetch" /\ call[d].after401
        /\ "Authorization" \notin DOMAIN Headers(d)
        /\ since401

\* C8 as stated: the status of the one response fixes the outcome: outside
\* 200-299 the call fails with an error carrying the status and the body text;
\* 204 resolves with null; any other 2xx resolves with the decoded body.
C8_OutcomeFixedByStatus ==
    \A c \in Calls :
        (Settled(c) /\ call[c].response # Null) =>
            /\ call[c].sent = 1
            /\ IF Status(c) < 200 \/ Status(c) > 299
               THEN call[c].api = ApiError(Status(c), Body(c))
               ELSE IF Status(c) = 204
                    THEN call[c].api = Resolved(Null)
                    ELSE /\ call[c].api.kind = "resolved"
                         /\ call[c].api.value # Null

\* C8 as amended: one request and no retry; a status outside 200-299 never
\* resolves: the call fails with the error carrying the status and the body
\* text, or with the read failure when the body text cannot be read; 204
\* resolves with null whatever the body; any other 2xx resolves with the body
\* decoded as JSON, or fails with the decode or read failure when the body
\* cannot be decoded.
C8_OutcomeByStatusAndBody ==
    \A c \in Calls :
        (Settled(c) /\ call[c].response # Null) =>
            /\ call[c].sent = 1
            /\ IF Status(c) < 200 \/ Status(c) > 299
               THEN call[c].api \in {ApiError(Status(c), Body(c)), TransportError}
               ELSE IF Status(c) = 204
                    THEN call[c].api = Resolved(Null)
                    ELSE IF Body(c).kind = "json"
                         THEN call[c].api \in {Resolved(Some(Body(c).doc)), TransportError}
                         ELSE call[c].api \in {DecodeError, TransportError}

C8_Witness ==
    \E c \in Calls :
        /\ call[c].pc = "settled"
        /\ call[c].response # Null
        /\ Status(c) = 299
        /\ Body(c).kind = "json"
        /\ call[c].api = Resolved(Some(Body(c).doc))

\* The operation of call c has returned a value built from a decoded document.
ReturnedDoc(c) ==
    /\ call[c].pc = "returned"
    /\ call[c].api.kind = "resolved"
    /\ call[c].api.value # Null

Returned(c) == Get(call[c].result.value)

\* C4: a transactionsList call with context parameter c0 whose response holds n
\* items returns context c0 + n whatever context the server sent, and the
\* server's left and result unchanged.
C4_PageContext ==
    \A c \in Calls :
        (ReturnedDoc(c) /\ call[c].op = "transactionsList") =>
            /\ call[c].result.kind = "resolved"
            /\ Returned(c).context = call[c].ctx + Len(Body(c).doc.result)
            /\ Returned(c).left = Body(c).doc.left
            /\ Returned(c).result = Body(c).doc.result

C4_Witness ==
    \E c \in Calls :
        /\ ReturnedDoc(c) /\ call[c].op = "transactionsList"
        /\ call[c].ctx = 4
        /\ Body(c).doc.context = 0
        /\ Body(c).doc.left = 3
        /\ Body(c).doc.result = <<"b", "a", "b">>
        /\ Returned(c).context = 7
        /\ Returned(c).result = <<"b", "a", "b">>

RECURSIVE Sum(_)
Sum(s) == IF s = <<>> THEN 0 ELSE s[1] + Sum(Tail(s))

\* The context of every request of the sequence is the number of items the
\* earlier calls of the sequence returned.
RunningOffset ==
    \A k \in 1..Len(pager.log) :
        pager.log[k] = Sum(SubSeq(pager.got, 1, k - 1))

\* The second call of the sequence 0, 5 has returned.
SecondOfFiveReturned ==
    /\ pager.active
    /\ pager.log = <<0, 5>>
    /\ Len(pager.got) = 2
    /\ ReturnedDoc(Caller)

\* C5 as stated: in a pagination sequence the context sent is the running
\* total of items returned, every following call requests a larger offset than
\* the one before, and the calls with context 0 then 5, the first returning 5
\* items, end with context 10.
C5_StrictlyIncreasingTo10 ==
    pager.active =>
        /\ RunningOffset
        /\ \A k \in 1..(Len(pager.log) - 1) : pager.log[k + 1] > pager.log[k]
        /\ SecondOfFiveReturned => Returned(Caller).context = 10

\* C5 as amended: the context sent is the running total of items returned by
\* the earlier calls, so it never decreases and it advances by exactly the
\* number of items the previous call returned (repeating the previous offset
\* only when that call returned no item); the calls with context 0 then 5 end
\* with context 5 + n, n the number of items of the second call, which is 10
\* when the second call returns 5 items too.
C5_RunningOffset ==
    pager.active =>
        /\ pager.log[1] = 0
        /\ RunningOffset
        /\ \A k \in 1..(Len(pager.log) - 1) :
              /\ pager.log[k + 1] = pager.log[k] + pager.got[k]
              /\ pager.log[k + 1] >= pager.log[k]
              /\ pager.got[k] > 0 => pager.log[k + 1] > pager.log[k]
        /\ SecondOfFiveReturned =>
              /\ Returned(Caller).context = 5 + pager.got[2]
              /\ pager.got[2] = 5 => Returned(Caller).context = 10

C5_Witness ==
    /\ SecondOfFiveReturned
    /\ pager.got = <<5, 5>>
    /\ Returned(Caller).context = 10

\* The non-paginated list operations.
ListOps == PassThroughOps \cup UnwrapOps

IsSeparator(x) == x \in {"?", "&"}

Positions(url, x) == {i \in 1..Len(url) : url[i] = x}

WellFormedQuery(url) ==
    /\ Cardinality(Positions(url, "?")) <= 1
    /\ \A i \in Positions(url, "&") : \E j \in Positions(url, "?") : j < i
    /\ \A i \in 1..(Len(url) - 1) : ~(IsSeparator(url[i]) /\ IsSeparator(url[i + 1]))
    /\ ~IsSeparator(url[Len(url)])

PatternPlaced(url) ==
    \A i \in Positions(url, "pattern=") :
        /\ i > 1
        /\ url[i - 1] = (IF Positions(url, "startDate=") = {} THEN "?" ELSE "&")

\* C10: for every combination of present and absent optional filters of
\* fetchBasicAnalyticsFiltered and of transactionsList the URL holds at most
\* one '?', never two consecutive separators and no trailing separator, and
\* every '&' follows the '?'; pattern comes first ('?pattern=') without the
\* date range and is appended with '&' after it.
C10_QueryWellFormed ==
    \A c \in Calls :
        call[c].op \in {"fetchBasicAnalyticsFiltered", "transactionsList"} =>
            LET url == Get(call[c].request).url
            IN  /\ WellFormedQuery(url)
                /\ call[c].op = "fetchBasicAnalyticsFiltered" => PatternPlaced(url)

====
